---- MODULE Spec2Model ----
(***************************************************************************)
(* RevPo: evaluator for reverse Polish (postfix) expressions, revpo.py.    *)
(*                                                                         *)
(* One call of eval(string, transform) is modelled as a state machine:     *)
(* the call tokenizes (and, in numeric mode, parses) its input, scans the  *)
(* elements left to right over an OperandStack, and ends by get_result or  *)
(* by a raised exception.                                                  *)
(*                                                                         *)
(* Python strings are sequences of one-character strings, so that split,   *)
(* int(), float(), f-string building and the slice [1:-1] are computed on  *)
(* characters.  Python values are records tagged by their type in field k. *)
(***************************************************************************)
EXTENDS Integers, Sequences, FiniteSets, TLC

VARIABLES
    string,     \* eval's argument: the input, a sequence of characters
    transform,  \* eval's argument: None, "to_infix" or "to_prefix"
    pc,         \* where the call is: "start", "scan", "done", "raised"
    elements,   \* eval's local: the atoms (numeric) or tokens (rendering)
    consumed,   \* how many elements the for loop has taken
    stack,      \* OperandStack.stack
    result,     \* the value eval returned
    err,        \* the exception eval raised, "" when none
    calls,      \* several callers: each thread's current call of eval
    heap        \* several callers: the list objects the calls' stacks are

vars == <<string, transform, pc, elements, consumed, stack, result, err,
          calls, heap>>

\* ------------------------------------------------------------------ bounds
\* longest enumerated token sequence
MaxTokens == 5
\* longest enumerated raw character string
MaxChars == 3

\* ------------------------------------------------------------ Python values
PyInt(n) == [k |-> "int", n |-> n, d |-> 1]

Abs(n) == IF n < 0 THEN -n ELSE n

RECURSIVE GCD(_, _)
GCD(a, b) == IF b = 0 THEN a ELSE GCD(b, a % b)

\* a float whose value is the fraction n/d (d > 0), kept in lowest terms
PyFloat(n, d) ==
    LET g == GCD(Abs(n), d)
    IN  [k |-> "float", n |-> n \div g, d |-> d \div g]

Str(s) == [k |-> "str", s |-> s]

\* a builtin function object of module operator
Function(name) == [k |-> "function", f |-> name]

\* a float or complex number the model does not compute: a power with a
\* non-integer exponent
Expr(f, l, r) == [k |-> "expr", f |-> f, l |-> l, r |-> r]

\* an exception leaving a call
Raise(exc) == [k |-> "raise", exc |-> exc]

NoValue == [k |-> "NoneType"]

\* ------------------------------------------------------- transform selector
None == "None"

Transforms == {None, "to_infix", "to_prefix"}

\* ----------------------------------------------------------- operator table
string_to_operator_map ==
    [t \in {<<"+">>, <<"-">>, <<"*">>, <<"/">>, <<"*", "*">>} |->
        CASE t = <<"+">> -> Function("add")
          [] t = <<"-">> -> Function("sub")
          [] t = <<"*">> -> Function("mul")
          [] t = <<"/">> -> Function("truediv")
          [] t = <<"*", "*">> -> Function("pow")]

\* ---------------------------------------------------------------- tokenizer
IsSpace(c) == c = " "

\* str.split() without arguments: split on runs of whitespace, no empty piece
RECURSIVE SplitFrom(_, _, _)
SplitFrom(s, j, cur) ==
    IF j > Len(s)
    THEN IF cur = <<>> THEN <<>> ELSE <<cur>>
    ELSE IF IsSpace(s[j])
         THEN IF cur = <<>>
              THEN SplitFrom(s, j + 1, <<>>)
              ELSE <<cur>> \o SplitFrom(s, j + 1, <<>>)
         ELSE SplitFrom(s, j + 1, Append(cur, s[j]))

\* str.split(' '): every single space separates, so runs of spaces and
\* spaces at the ends give empty pieces
RECURSIVE SplitAtEachSpace(_, _, _)
SplitAtEachSpace(s, j, cur) ==
    IF j > Len(s) THEN <<cur>>
    ELSE IF IsSpace(s[j]) THEN <<cur>> \o SplitAtEachSpace(s, j + 1, <<>>)
    ELSE SplitAtEachSpace(s, j + 1, Append(cur, s[j]))

_tokenize_each_space(s) == SplitAtEachSpace(s, 1, <<>>)

_tokenize(s) == SplitFrom(s, 1, <<>>)

\* ---------------------------------------------------------- int() and float()
Digits == {"0", "1", "2", "3", "4", "5", "6", "7", "8", "9"}

DigitVal(c) ==
    CASE c = "0" -> 0 [] c = "1" -> 1 [] c = "2" -> 2 [] c = "3" -> 3
      [] c = "4" -> 4 [] c = "5" -> 5 [] c = "6" -> 6 [] c = "7" -> 7
      [] c = "8" -> 8 [] c = "9" -> 9

RECURSIVE DigitsVal(_)
DigitsVal(s) ==
    IF s = <<>> THEN 0
    ELSE 10 * DigitsVal(SubSeq(s, 1, Len(s) - 1)) + DigitVal(s[Len(s)])

RECURSIVE IntPow(_, _)
IntPow(b, e) == IF e = 0 THEN 1 ELSE b * IntPow(b, e - 1)

HasSign(t) == t # <<>> /\ t[1] \in {"+", "-"}

Unsigned(t) == IF HasSign(t) THEN Tail(t) ELSE t

Sign(t) == IF HasSign(t) /\ t[1] = "-" THEN -1 ELSE 1

\* int(token) succeeds: an optional sign and one or more decimal digits
IntParses(t) ==
    /\ Unsigned(t) # <<>>
    /\ \A j \in 1..Len(Unsigned(t)) : Unsigned(t)[j] \in Digits

IntOf(t) == PyInt(Sign(t) * DigitsVal(Unsigned(t)))

\* float(token) succeeds: an optional sign, digits with at most one point,
\* and at least one digit
FloatParses(t) ==
    LET u == Unsigned(t)
        points == {j \in 1..Len(u) : u[j] = "."}
    IN  /\ \A j \in 1..Len(u) : u[j] \in Digits \cup {"."}
        /\ Cardinality(points) <= 1
        /\ \E j \in 1..Len(u) : u[j] \in Digits

FloatOf(t) ==
    LET u == Unsigned(t)
        ds == SelectSeq(u, LAMBDA c : c \in Digits)
        points == {j \in 1..Len(u) : u[j] = "."}
        frac == IF points = {} THEN 0 ELSE Len(u) - (CHOOSE j \in points : TRUE)
    IN  PyFloat(Sign(t) * DigitsVal(ds), IntPow(10, frac))

\* ----------------------------------------------------------- atom classifier
\* _atomize that tries float() before int()
_atomize_float_first(token) ==
    IF FloatParses(token) THEN FloatOf(token)
    ELSE IF IntParses(token) THEN IntOf(token)
    ELSE IF token \in DOMAIN string_to_operator_map
         THEN string_to_operator_map[token]
    ELSE Raise("UnsupportedOperator")

_atomize(token) ==
    IF IntParses(token) THEN IntOf(token)
    ELSE IF FloatParses(token) THEN FloatOf(token)
    ELSE IF token \in DOMAIN string_to_operator_map
         THEN string_to_operator_map[token]
    ELSE Raise("UnsupportedOperator")

\* _parse that drops the tokens it cannot classify
_parse_skipping(tokens) ==
    LET known == SelectSeq(tokens,
                    LAMBDA t : IntParses(t) \/ FloatParses(t)
                                 \/ t \in DOMAIN string_to_operator_map)
    IN  [k |-> "list", items |-> [j \in 1..Len(known) |-> _atomize(known[j])]]

\* the list comprehension of _parse: the first failing token raises
_parse(tokens) ==
    IF \E j \in 1..Len(tokens) : _atomize(tokens[j]) = Raise("UnsupportedOperator")
    THEN Raise("UnsupportedOperator")
    ELSE [k |-> "list", items |-> [j \in 1..Len(tokens) |-> _atomize(tokens[j])]]

\* ------------------------------------------------ operator.add, sub, mul, ...
\* Call with floor division (operator.floordiv) for "/"
Call_floordiv(f, l, r) ==
    IF l.k = "expr" \/ r.k = "expr" THEN Expr(f, l, r)
    ELSE
    LET bothInt == l.k = "int" /\ r.k = "int"
        Num(n, d) == IF bothInt THEN PyInt(n) ELSE PyFloat(n, d)
    IN  CASE f = "add" -> Num(l.n * r.d + r.n * l.d, l.d * r.d)
          [] f = "sub" -> Num(l.n * r.d - r.n * l.d, l.d * r.d)
          [] f = "mul" -> Num(l.n * r.n, l.d * r.d)
          [] f = "truediv" ->
                IF r.n = 0 THEN Raise("ZeroDivisionError")
                ELSE IF r.n > 0 THEN Num((l.n * r.d) \div (l.d * r.n), 1)
                ELSE Num((-(l.n * r.d)) \div (l.d * (-r.n)), 1)
          [] f = "pow" ->
                IF r.d = 1 /\ r.n >= 0
                THEN Num(IntPow(l.n, r.n), IntPow(l.d, r.n))
                ELSE IF l.n = 0
                THEN IF r.n > 0 THEN PyFloat(0, 1)
                     ELSE Raise("ZeroDivisionError")
                ELSE IF r.d = 1
                THEN LET e == -r.n
                         s == IF l.n < 0 /\ e % 2 = 1 THEN -1 ELSE 1
                     IN  PyFloat(s * IntPow(l.d, e), IntPow(Abs(l.n), e))
                ELSE Expr(f, l, r)

\* f(l, r) for the builtin named f, on ints and floats: the result, or the
\* exception it raises.  A power of zero to a negative exponent and a
\* division by zero raise ZeroDivisionError.
Call(f, l, r) ==
    IF l.k = "expr" \/ r.k = "expr" THEN Expr(f, l, r)
    ELSE
    LET bothInt == l.k = "int" /\ r.k = "int"
        Num(n, d) == IF bothInt THEN PyInt(n) ELSE PyFloat(n, d)
    IN  CASE f = "add" -> Num(l.n * r.d + r.n * l.d, l.d * r.d)
          [] f = "sub" -> Num(l.n * r.d - r.n * l.d, l.d * r.d)
          [] f = "mul" -> Num(l.n * r.n, l.d * r.d)
          [] f = "truediv" ->
                IF r.n = 0 THEN Raise("ZeroDivisionError")
                ELSE IF r.n > 0 THEN PyFloat(l.n * r.d, l.d * r.n)
                ELSE PyFloat(-(l.n * r.d), l.d * (-r.n))
          [] f = "pow" ->
                IF r.d = 1 /\ r.n >= 0
                THEN Num(IntPow(l.n, r.n), IntPow(l.d, r.n))
                ELSE IF l.n = 0
                THEN IF r.n > 0 THEN PyFloat(0, 1)
                     ELSE Raise("ZeroDivisionError")
                ELSE IF r.d = 1
                THEN LET e == -r.n
                         s == IF l.n < 0 /\ e % 2 = 1 THEN -1 ELSE 1
                     IN  PyFloat(s * IntPow(l.d, e), IntPow(Abs(l.n), e))
                ELSE Expr(f, l, r)

\* -------------------------------------------------------------- OperandStack
\* build_operand with the numeric operands taken in popping order
build_operand_popped_order(tr, op, left, right) ==
    CASE tr = None -> Call(op.f, right, left)
      [] tr = "to_infix" ->
            Str(<<"(">> \o left.s \o <<" ">> \o op.s \o <<" ">> \o right.s \o <<")">>)
      [] tr = "to_prefix" ->
            Str(<<"(">> \o op.s \o <<" ">> \o left.s \o <<" ">> \o right.s \o <<")">>)

\* build_operand whose infix rendering puts the later operand first
build_operand_infix_swapped(tr, op, left, right) ==
    CASE tr = None -> Call(op.f, left, right)
      [] tr = "to_infix" ->
            Str(<<"(">> \o right.s \o <<" ">> \o op.s \o <<" ">> \o left.s \o <<")">>)
      [] tr = "to_prefix" ->
            Str(<<"(">> \o op.s \o <<" ">> \o left.s \o <<" ">> \o right.s \o <<")">>)

\* build_operand whose prefix rendering puts the later operand first
build_operand_prefix_swapped(tr, op, left, right) ==
    CASE tr = None -> Call(op.f, left, right)
      [] tr = "to_infix" ->
            Str(<<"(">> \o left.s \o <<" ">> \o op.s \o <<" ">> \o right.s \o <<")">>)
      [] tr = "to_prefix" ->
            Str(<<"(">> \o op.s \o <<" ">> \o right.s \o <<" ">> \o left.s \o <<")">>)

\* builder_functions[transform](op, left, right)
build_operand(tr, op, left, right) ==
    CASE tr = None -> Call(op.f, left, right)
      [] tr = "to_infix" ->
            Str(<<"(">> \o left.s \o <<" ">> \o op.s \o <<" ">> \o right.s \o <<")">>)
      [] tr = "to_prefix" ->
            Str(<<"(">> \o op.s \o <<" ">> \o left.s \o <<" ">> \o right.s \o <<")">>)

\* a slice that takes one character more from the front: [2:-1]
Slice2m1(s) == SubSeq(s, 3, Len(s) - 1)

\* the slice [1:-1] of a string
Slice1m1(s) == SubSeq(s, 2, Len(s) - 1)

\* is_operator that knows only the one-character operators
is_operator_one_char(tr, element) ==
    IF tr = None THEN element.k = "function"
    ELSE element.s \in {<<"+">>, <<"-">>, <<"*">>, <<"/">>}

\* is_operator as eval selects it: callable, or membership of the table
is_operator(tr, element) ==
    IF tr = None THEN element.k = "function"
    ELSE element.s \in DOMAIN string_to_operator_map

append_operand(st, operand) == Append(st, operand)

\* apply_operator that swallows the failed pop and goes on
apply_operator_swallowing(tr, st, operator) ==
    IF Len(st) < 2
    THEN [stack |-> <<>>, exc |-> NoValue]
    ELSE LET operand == build_operand(tr, operator, st[Len(st) - 1], st[Len(st)])
         IN  IF operand.k = "raise"
             THEN [stack |-> SubSeq(st, 1, Len(st) - 2), exc |-> operand]
             ELSE [stack |-> Append(SubSeq(st, 1, Len(st) - 2), operand),
                   exc |-> NoValue]

\* apply_operator that pops its operands and pushes nothing back
apply_operator_no_push(tr, st, operator) ==
    IF Len(st) < 2
    THEN [stack |-> <<>>, exc |-> Raise("InsufficientOperands")]
    ELSE LET operand == build_operand(tr, operator, st[Len(st) - 1], st[Len(st)])
         IN  IF operand.k = "raise"
             THEN [stack |-> SubSeq(st, 1, Len(st) - 2), exc |-> operand]
             ELSE [stack |-> SubSeq(st, 1, Len(st) - 2), exc |-> NoValue]

\* the stack and the exception (or NoValue) apply_operator leaves: the pops
\* come first, so a lone operand is already popped when the second pop fails
apply_operator(tr, st, operator) ==
    IF Len(st) < 2
    THEN [stack |-> <<>>, exc |-> Raise("InsufficientOperands")]
    ELSE LET second_operand == st[Len(st)]
             first_operand == st[Len(st) - 1]
             rest == SubSeq(st, 1, Len(st) - 2)
             operand == build_operand(tr, operator, first_operand, second_operand)
         IN  IF operand.k = "raise"
             THEN [stack |-> rest, exc |-> operand]
             ELSE [stack |-> Append(rest, operand), exc |-> NoValue]

\* get_result that, evaluating numbers, returns the top operand however many
\* operands are left
get_result_lenient(tr, st) ==
    IF tr # None /\ Len(st) # 1
    THEN [stack |-> st, ret |-> Raise("TooManyOperands")]
    ELSE IF tr = None
    THEN IF st = <<>>
         THEN [stack |-> st, ret |-> Raise("TooManyOperands")]
         ELSE [stack |-> SubSeq(st, 1, Len(st) - 1), ret |-> st[Len(st)]]
    ELSE [stack |-> <<>>, ret |-> Str(Slice1m1(st[1].s))]

\* the stack get_result leaves and what it returns or raises
get_result(tr, st) ==
    IF Len(st) # 1
    THEN [stack |-> st, ret |-> Raise("TooManyOperands")]
    ELSE IF tr = None
    THEN [stack |-> <<>>, ret |-> st[1]]
    ELSE [stack |-> <<>>, ret |-> Str(Slice1m1(st[1].s))]

\* --------------------------------------------------------------------- inputs
\* '5 1 2 + 4 * + 3 -'
ints ==
    <<"5", " ", "1", " ", "2", " ", "+", " ", "4", " ", "*", " ", "+", " ", "3", " ", "-">>

\* '1 2 + 4 * 5 + 4.5 -'
floats ==
    <<"1", " ", "2", " ", "+", " ", "4", " ", "*", " ", "5", " ", "+", " ", "4", ".", "5", " ", "-">>

\* '4 2 / 1 - 4 +'
division ==
    <<"4", " ", "2", " ", "/", " ", "1", " ", "-", " ", "4", " ", "+">>

\* '4 2 ** 1 +'
exponentiation ==
    <<"4", " ", "2", " ", "*", "*", " ", "1", " ", "+">>

\* '-7 -7 *'
negative_numbers ==
    <<"-", "7", " ", "-", "7", " ", "*">>

\* '  4    2  + '
extra_spaces ==
    <<" ", " ", "4", " ", " ", " ", " ", "2", " ", " ", "+", " ">>

\* '5 4 1 +'
too_many_operands ==
    <<"5", " ", "4", " ", "1", " ", "+">>

\* '7 *'
insufficient_operands ==
    <<"7", " ", "*">>

\* '7 7 &'
unsupported_operator ==
    <<"7", " ", "7", " ", "&">>

\* '3b'
weird_token ==
    <<"3", "b">>

TestInputs ==
    {ints,
     floats,
     division,
     exponentiation,
     negative_numbers,
     extra_spaces,
     too_many_operands,
     insufficient_operands,
     unsupported_operator,
     weird_token}

\* further inputs: '4 2 -', '7 2 /', '-7 4.5 **',
\* '+ &', '1 2 3 &'
MoreInputs ==
    {<<"4", " ", "2", " ", "-">>,
     <<"7", " ", "2", " ", "/">>,
     <<"-", "7", " ", "4", ".", "5", " ", "*", "*">>,
     <<"+", " ", "&">>,
     <<"1", " ", "2", " ", "3", " ", "&">>}

TokenAlphabet == {<<"2">>, <<"0">>, <<"-">>, <<"/">>, <<"*", "*">>, <<"&">>}

TokenSeqs == UNION {[1..n -> TokenAlphabet] : n \in 0..MaxTokens}

\* ' '.join(tokens)
RECURSIVE Join(_)
Join(ts) ==
    IF ts = <<>> THEN <<>>
    ELSE IF Len(ts) = 1 THEN ts[1]
    ELSE ts[1] \o <<" ">> \o Join(Tail(ts))

CharAlphabet == {" ", "7", "-", "+", ".", "*", "b"}

CharStrings == UNION {[1..n -> CharAlphabet] : n \in 0..MaxChars}

Inputs ==
    {Join(ts) : ts \in TokenSeqs} \cup CharStrings \cup TestInputs \cup MoreInputs

\* ------------------------------------------------------------ several callers
Threads == {"A", "B"}

\* identities of list objects; 0 is no object
ObjIds == {1, 2}

\* a thread that has not called eval
IdleCall ==
    [string |-> <<>>, transform |-> None, pc |-> "idle", elements |-> <<>>,
     consumed |-> 0, stack |-> 0, result |-> NoValue, err |-> ""]

NoCalls ==
    /\ calls = [t \in Threads |-> IdleCall]
    /\ heap = [o \in ObjIds |-> <<>>]

\* ----------------------------------------------------------------------- eval
Init ==
    /\ NoCalls
    /\ string \in Inputs
    /\ transform \in Transforms
    /\ pc = "start"
    /\ elements = <<>>
    /\ consumed = 0
    /\ stack = <<>>
    /\ result = NoValue
    /\ err = ""

\* lines 124-126 and 131: numeric mode tokenizes and parses
eval_parse ==
    /\ pc = "start"
    /\ transform = None
    /\ LET atoms == _parse(_tokenize(string))
       IN  IF atoms.k = "raise"
           THEN /\ pc' = "raised"
                /\ err' = atoms.exc
                /\ elements' = elements
           ELSE /\ pc' = "scan"
                /\ err' = err
                /\ elements' = atoms.items
    /\ stack' = <<>>
    /\ UNCHANGED <<string, transform, consumed, result, calls, heap>>

\* lines 127-131: a rendering mode only tokenizes
eval_tokenize ==
    /\ pc = "start"
    /\ transform # None
    /\ LET tokens == _tokenize(string)
       IN  elements' = [j \in 1..Len(tokens) |-> Str(tokens[j])]
    /\ pc' = "scan"
    /\ stack' = <<>>
    /\ UNCHANGED <<string, transform, consumed, result, err, calls, heap>>

\* lines 133-135: the next element is an operator
eval_operator ==
    /\ pc = "scan"
    /\ consumed < Len(elements)
    /\ is_operator(transform, elements[consumed + 1])
    /\ LET after == apply_operator(transform, stack, elements[consumed + 1])
       IN  /\ stack' = after.stack
           /\ IF after.exc.k = "raise"
              THEN pc' = "raised" /\ err' = after.exc.exc
              ELSE pc' = pc /\ err' = err
    /\ consumed' = consumed + 1
    /\ UNCHANGED <<string, transform, elements, result, calls, heap>>

\* the loop pushing the next element without moving on to the one after it
eval_operand_staying ==
    /\ pc = "scan"
    /\ consumed < Len(elements)
    /\ ~is_operator(transform, elements[consumed + 1])
    /\ stack' = append_operand(stack, elements[consumed + 1])
    /\ UNCHANGED <<string, transform, pc, elements, consumed, result, err,
                   calls, heap>>

\* lines 133-137: the next element is an operand
eval_operand ==
    /\ pc = "scan"
    /\ consumed < Len(elements)
    /\ ~is_operator(transform, elements[consumed + 1])
    /\ stack' = append_operand(stack, elements[consumed + 1])
    /\ consumed' = consumed + 1
    /\ UNCHANGED <<string, transform, pc, elements, result, err, calls, heap>>

\* line 139: the loop is over
eval_return ==
    /\ pc = "scan"
    /\ consumed = Len(elements)
    /\ LET after == get_result(transform, stack)
       IN  /\ stack' = after.stack
           /\ IF after.ret.k = "raise"
              THEN pc' = "raised" /\ err' = after.ret.exc /\ result' = result
              ELSE pc' = "done" /\ err' = err /\ result' = after.ret
    /\ UNCHANGED <<string, transform, elements, consumed, calls, heap>>

Next ==
    \/ eval_parse
    \/ eval_tokenize
    \/ eval_operator
    \/ eval_operand
    \/ eval_return

Spec == Init /\ [][Next]_vars

\* -------------------------------------------------- eval called by threads
\* the callers' inputs: five of the test strings and
\* '', '7', ' 7 ', ' 7  * ', '4 2 +', '4 2 -', '2 0 /', '2 2 **'
CallInputs ==
    {negative_numbers, extra_spaces, too_many_operands,
     insufficient_operands, unsupported_operator,
     <<>>,
     <<"7">>,
     <<" ", "7", " ">>,
     <<" ", "7", " ", " ", "*", " ">>,
     <<"4", " ", "2", " ", "+">>,
     <<"4", " ", "2", " ", "-">>,
     <<"2", " ", "0", " ", "/">>,
     <<"2", " ", "2", " ", "*", "*">>}

\* the variables of the single call, which the callers leave alone
one_call == <<string, transform, pc, elements, consumed, stack, result, err>>

\* the stacks of the calls that are between OperandStack() and their end
InUse == {calls[t].stack : t \in {u \in Threads : calls[u].pc = "scan"}}

\* OperandStack.__init__ binding self.stack to one list shared by every
\* instance (a class attribute, a mutable default argument)
OperandStack_init_shared(h, inuse) == [ref |-> 1, heap |-> h]

\* OperandStack.__init__ taking a list object that is free but keeping what
\* an earlier call left in it
OperandStack_init_keeping(h, inuse) ==
    LET ref == CHOOSE o \in ObjIds \ inuse : \A p \in ObjIds \ inuse : o <= p
    IN  [ref |-> ref, heap |-> h]

\* OperandStack.__init__: self.stack = [] makes a new list object, one that
\* no call in progress holds
OperandStack_init(h, inuse) ==
    LET ref == CHOOSE o \in ObjIds \ inuse : \A p \in ObjIds \ inuse : o <= p
    IN  [ref |-> ref, heap |-> [h EXCEPT ![ref] = <<>>]]

\* a caller enters eval(s, tr)
call_eval(t) ==
    /\ calls[t].pc \in {"idle", "done", "raised"}
    /\ \E s \in CallInputs, tr \in Transforms :
          calls' = [calls EXCEPT ![t] =
                      [IdleCall EXCEPT !.string = s, !.transform = tr,
                                       !.pc = "start"]]
    /\ UNCHANGED <<heap, one_call>>

\* lines 124-126 and 131 in thread t
call_parse(t) ==
    /\ calls[t].pc = "start"
    /\ calls[t].transform = None
    /\ LET atoms == _parse(_tokenize(calls[t].string))
           made == OperandStack_init(heap, InUse)
       IN  IF atoms.k = "raise"
           THEN /\ calls' = [calls EXCEPT ![t].pc = "raised",
                                          ![t].err = atoms.exc]
                /\ heap' = heap
           ELSE /\ calls' = [calls EXCEPT ![t].pc = "scan",
                                          ![t].elements = atoms.items,
                                          ![t].stack = made.ref]
                /\ heap' = made.heap
    /\ UNCHANGED one_call

\* lines 127-131 in thread t
call_tokenize(t) ==
    /\ calls[t].pc = "start"
    /\ calls[t].transform # None
    /\ LET tokens == _tokenize(calls[t].string)
           made == OperandStack_init(heap, InUse)
       IN  /\ calls' = [calls EXCEPT
                          ![t].pc = "scan",
                          ![t].elements = [j \in 1..Len(tokens) |-> Str(tokens[j])],
                          ![t].stack = made.ref]
           /\ heap' = made.heap
    /\ UNCHANGED one_call

\* lines 133-135 in thread t
call_operator(t) ==
    LET c == calls[t]
    IN  /\ c.pc = "scan"
        /\ c.consumed < Len(c.elements)
        /\ is_operator(c.transform, c.elements[c.consumed + 1])
        /\ LET after == apply_operator(c.transform, heap[c.stack],
                                       c.elements[c.consumed + 1])
           IN  /\ heap' = [heap EXCEPT ![c.stack] = after.stack]
               /\ calls' = [calls EXCEPT
                     ![t].consumed = c.consumed + 1,
                     ![t].pc = IF after.exc.k = "raise" THEN "raised" ELSE c.pc,
                     ![t].err = IF after.exc.k = "raise" THEN after.exc.exc
                                ELSE c.err]
        /\ UNCHANGED one_call

\* lines 133-137 in thread t
call_operand(t) ==
    LET c == calls[t]
    IN  /\ c.pc = "scan"
        /\ c.consumed < Len(c.elements)
        /\ ~is_operator(c.transform, c.elements[c.consumed + 1])
        /\ heap' = [heap EXCEPT
                      ![c.stack] = append_operand(heap[c.stack],
                                                  c.elements[c.consumed + 1])]
        /\ calls' = [calls EXCEPT ![t].consumed = c.consumed + 1]
        /\ UNCHANGED one_call

\* line 139 in thread t
call_return(t) ==
    LET c == calls[t]
    IN  /\ c.pc = "scan"
        /\ c.consumed = Len(c.elements)
        /\ LET after == get_result(c.transform, heap[c.stack])
           IN  /\ heap' = [heap EXCEPT ![c.stack] = after.stack]
               /\ calls' = [calls EXCEPT
                     ![t].pc = IF after.ret.k = "raise" THEN "raised" ELSE "done",
                     ![t].err = IF after.ret.k = "raise" THEN after.ret.exc
                                ELSE c.err,
                     ![t].result = IF after.ret.k = "raise" THEN c.result
                                   ELSE after.ret]
        /\ UNCHANGED one_call

InitCalls ==
    /\ NoCalls
    /\ string = <<>>
    /\ transform = None
    /\ pc = "start"
    /\ elements = <<>>
    /\ consumed = 0
    /\ stack = <<>>
    /\ result = NoValue
    /\ err = ""

NextCalls ==
    \E t \in Threads :
        \/ call_eval(t)
        \/ call_parse(t)
        \/ call_tokenize(t)
        \/ call_operator(t)
        \/ call_operand(t)
        \/ call_return(t)

\* eval called by two threads, again and again, their steps interleaved
SpecCalls == InitCalls /\ [][NextCalls]_vars

\* no other thread is inside eval
OthersOutside(t) ==
    \A u \in Threads \ {t} : calls[u].pc \in {"idle", "done", "raised"}

NextSeq ==
    \E t \in Threads :
        \/ OthersOutside(t) /\ call_eval(t)
        \/ call_parse(t)
        \/ call_tokenize(t)
        \/ call_operator(t)
        \/ call_operand(t)
        \/ call_return(t)

\* eval called again and again, one call at a time
SpecSeq == InitCalls /\ [][NextSeq]_vars

\* eval run alone, as a function of its arguments: what it returns or raises
RECURSIVE ScanFrom(_, _, _, _)
ScanFrom(tr, els, j, st) ==
    IF j > Len(els) THEN get_result(tr, st).ret
    ELSE IF is_operator(tr, els[j])
    THEN LET after == apply_operator(tr, st, els[j])
         IN  IF after.exc.k = "raise" THEN after.exc
             ELSE ScanFrom(tr, els, j + 1, after.stack)
    ELSE ScanFrom(tr, els, j + 1, append_operand(st, els[j]))

eval(s, tr) ==
    IF tr = None
    THEN LET atoms == _parse(_tokenize(s))
         IN  IF atoms.k = "raise" THEN atoms
             ELSE ScanFrom(tr, atoms.items, 1, <<>>)
    ELSE LET tokens == _tokenize(s)
         IN  ScanFrom(tr, [j \in 1..Len(tokens) |-> Str(tokens[j])], 1, <<>>)


\* ===================================================================== claims
\* the tokens of the call's input
Tokens == _tokenize(string)

Ended == pc \in {"done", "raised"}

InTable(t) == t \in DOMAIN string_to_operator_map

\* operands minus operators among the first n tokens
Depth(ts, n) ==
    Cardinality({j \in 1..n : ~InTable(ts[j])})
        - Cardinality({j \in 1..n : InTable(ts[j])})

\* a well-formed postfix expression: every operator finds two operands and
\* exactly one operand remains
WellFormed(ts) ==
    /\ ts # <<>>
    /\ \A n \in 1..Len(ts) : InTable(ts[n]) => Depth(ts, n - 1) >= 2
    /\ Depth(ts, Len(ts)) = 1

HasOperator(ts) == \E j \in 1..Len(ts) : InTable(ts[j])

\* where the right operand of the last operator starts
RightStart(ts) ==
    CHOOSE m \in 2..(Len(ts) - 1) : WellFormed(SubSeq(ts, m, Len(ts) - 1))

LeftPart(ts) == SubSeq(ts, 1, RightStart(ts) - 1)

RightPart(ts) == SubSeq(ts, RightStart(ts), Len(ts) - 1)

\* the expression tree evaluated recursively, op(left, right), left first
RECURSIVE RefValue(_)
RefValue(ts) ==
    IF Len(ts) = 1 THEN IntOf(ts[1])
    ELSE LET l == RefValue(LeftPart(ts))
             r == RefValue(RightPart(ts))
         IN  IF l.k = "raise" THEN l
             ELSE IF r.k = "raise" THEN r
             ELSE Call(string_to_operator_map[ts[Len(ts)]].f, l, r)

IntegerExpression(ts) ==
    \A j \in 1..Len(ts) :
        IntParses(ts[j]) \/ ts[j] \in {<<"+">>, <<"-">>, <<"*">>, <<"*", "*">>}

\* C1: in numeric mode a well-formed postfix expression over integer literals
\* and + - * ** evaluates to the value of its expression tree, each operator
\* applied to (earlier operand, later operand); where the tree has no value
\* (zero to a negative power) the call raises the same error.
C1_NumericMatchesReference ==
    (Ended /\ transform = None /\ IntegerExpression(Tokens) /\ WellFormed(Tokens))
        => LET ref == RefValue(Tokens)
           IN  IF ref.k = "raise"
               THEN pc = "raised" /\ err = ref.exc
               ELSE pc = "done" /\ result = ref

\* '5 1 2 + 4 * + 3 -' has returned 14
C1_Witness ==
    pc = "done" /\ transform = None /\ string = ints /\ result = PyInt(14)

\* the fully parenthesized infix rendering of the expression tree
RECURSIVE RefInfix(_)
RefInfix(ts) ==
    IF Len(ts) = 1 THEN ts[1]
    ELSE <<"(">> \o RefInfix(LeftPart(ts)) \o <<" ">> \o ts[Len(ts)]
            \o <<" ">> \o RefInfix(RightPart(ts)) \o <<")">>

\* C2: in infix mode a well-formed expression with at least one operator
\* returns the fully parenthesized infix rendering of its tree, less the
\* outermost pair of parentheses.
C2_InfixMatchesReference ==
    (Ended /\ transform = "to_infix" /\ WellFormed(Tokens) /\ HasOperator(Tokens))
        => /\ pc = "done"
           /\ result = Str(RefInfix(LeftPart(Tokens)) \o <<" ">>
                            \o Tokens[Len(Tokens)] \o <<" ">>
                            \o RefInfix(RightPart(Tokens)))

\* '5 1 2 + 4 * + 3 -' has returned '(5 + ((1 + 2) * 4)) - 3'
C2_Witness ==
    /\ pc = "done" /\ transform = "to_infix" /\ string = ints
    /\ result = Str(<<"(", "5", " ", "+", " ", "(", "(", "1", " ", "+", " ", "2", ")", " ", "*", " ", "4", ")", ")", " ", "-", " ", "3">>)

\* the fully parenthesized prefix rendering of the expression tree
RECURSIVE RefPrefix(_)
RefPrefix(ts) ==
    IF Len(ts) = 1 THEN ts[1]
    ELSE <<"(">> \o ts[Len(ts)] \o <<" ">> \o RefPrefix(LeftPart(ts))
            \o <<" ">> \o RefPrefix(RightPart(ts)) \o <<")">>

\* C3: in prefix mode a well-formed expression with at least one operator
\* returns the fully parenthesized prefix rendering of its tree, less the
\* outermost pair of parentheses.
C3_PrefixMatchesReference ==
    (Ended /\ transform = "to_prefix" /\ WellFormed(Tokens) /\ HasOperator(Tokens))
        => /\ pc = "done"
           /\ result = Str(Tokens[Len(Tokens)] \o <<" ">>
                            \o RefPrefix(LeftPart(Tokens)) \o <<" ">>
                            \o RefPrefix(RightPart(Tokens)))

\* '5 1 2 + 4 * + 3 -' has returned '- (+ 5 (* (+ 1 2) 4)) 3'
C3_Witness ==
    /\ pc = "done" /\ transform = "to_prefix" /\ string = ints
    /\ result = Str(<<"-", " ", "(", "+", " ", "5", " ", "(", "*", " ", "(", "+", " ", "1", " ", "2", ")", " ", "4", ")", ")", " ", "3">>)

NamedErrors == {"UnsupportedOperator", "InsufficientOperands", "TooManyOperands"}

\* C4: every failure of eval is UnsupportedOperator, InsufficientOperands or
\* TooManyOperands; no other exception leaves the call.
C4_OnlyNamedErrors ==
    pc = "raised" => err \in NamedErrors

\* the last step of a call: every element is consumed and get_result runs
AtReturn == pc = "scan" /\ consumed = Len(elements)

\* C5: eval raises TooManyOperands exactly when every token was consumed
\* without error and more than one operand remains on the stack.
C5_TooManyIffMoreThanOne ==
    [][/\ (err' = "TooManyOperands" /\ err = "") => (AtReturn /\ Len(stack) > 1)
       /\ (AtReturn /\ Len(stack) > 1) => err' = "TooManyOperands"]_vars

\* the scan is at an operator
AtOperator ==
    pc = "scan" /\ consumed < Len(elements) /\ InTable(Tokens[consumed + 1])

\* C6: an operator met with fewer than two operands on the stack raises
\* InsufficientOperands at that operator, pushes nothing, and the call
\* processes no later token; InsufficientOperands is raised only there.
C6_InsufficientAtOperator ==
    [][/\ (AtOperator /\ Len(stack) < 2)
            => /\ pc' = "raised" /\ err' = "InsufficientOperands"
               /\ consumed' = consumed + 1
               /\ Len(stack') <= Len(stack)
               /\ \A j \in 1..Len(stack') : stack'[j] = stack[j]
       /\ (err' = "InsufficientOperands" /\ err = "")
            => (AtOperator /\ Len(stack) < 2)
       /\ pc = "raised" => (consumed' = consumed /\ stack' = stack /\ pc' = pc)]_vars

\* '7 *' has raised InsufficientOperands at its second token
C6_Witness ==
    /\ string = insufficient_operands /\ pc = "raised"
    /\ err = "InsufficientOperands" /\ consumed = 2

Unsupported(t) == ~IntParses(t) /\ ~FloatParses(t) /\ ~InTable(t)

\* C7: in numeric mode an input with an unsupported token raises
\* UnsupportedOperator before any stack operation, wherever the token is.
C7_UnsupportedFirst ==
    (transform = None /\ \E j \in 1..Len(Tokens) : Unsupported(Tokens[j]))
        => /\ pc \in {"start", "raised"}
           /\ pc = "raised" => err = "UnsupportedOperator"
           /\ consumed = 0 /\ stack = <<>>

\* '+ &' has raised UnsupportedOperator, not InsufficientOperands
C7_Witness ==
    /\ string = <<"+", " ", "&">> /\ transform = None
    /\ pc = "raised" /\ err = "UnsupportedOperator"

\* C8: a rendering mode classifies no token: the elements are the tokens, a
\* token of the operator table reduces, any other token is pushed verbatim,
\* and UnsupportedOperator is never raised.
C8_RenderingClassifiesNothing ==
    /\ [](transform # None =>
            /\ err # "UnsupportedOperator"
            /\ pc # "start" =>
                    elements = [j \in 1..Len(Tokens) |-> Str(Tokens[j])])
    /\ [][(transform # None /\ pc = "scan" /\ consumed < Len(elements)) =>
            /\ consumed' = consumed + 1
            /\ IF InTable(Tokens[consumed + 1])
               THEN \/ pc' = "raised" /\ err' = "InsufficientOperands"
                    \/ pc' = "scan" /\ Len(stack') = Len(stack) - 1
               ELSE /\ pc' = "scan"
                    /\ stack' = Append(stack, Str(Tokens[consumed + 1]))]_vars

\* '7 7 &' in infix mode has pushed '&' as an operand
C8_Witness ==
    /\ string = unsupported_operator /\ transform = "to_infix"
    /\ stack = <<Str(<<"7">>), Str(<<"7">>), Str(<<"&">>)>>

\* C9: classification has a fixed priority: integer if the token parses as
\* an integer, else float if it parses as a float, else the operator of the
\* table, else UnsupportedOperator; so '-7' is the integer -7, '4.5' the
\* float 4.5 and + - * / ** the five operators.
C9_ClassificationPriority ==
    (transform = None /\ pc # "start") =>
        IF \E j \in 1..Len(Tokens) : Unsupported(Tokens[j])
        THEN pc = "raised" /\ err = "UnsupportedOperator"
        ELSE /\ Len(elements) = Len(Tokens)
             /\ \A j \in 1..Len(Tokens) :
                    LET t == Tokens[j]
                        a == elements[j]
                    IN  /\ a.k = IF IntParses(t) THEN "int"
                                 ELSE IF FloatParses(t) THEN "float"
                                 ELSE "function"
                        /\ t = <<"-", "7">> => a = PyInt(-7)
                        /\ t = <<"7">> => a = PyInt(7)
                        /\ t = <<"+", "7">> => a = PyInt(7)
                        /\ t = <<"4", ".", "5">> => a = [k |-> "float", n |-> 9, d |-> 2]
                        /\ t = <<"7", ".">> => a = [k |-> "float", n |-> 7, d |-> 1]
                        /\ t = <<"-", ".", "7">> => a = [k |-> "float", n |-> -7, d |-> 10]
                        /\ t = <<"+">> => a = Function("add")
                        /\ t = <<"-">> => a = Function("sub")
                        /\ t = <<"*">> => a = Function("mul")
                        /\ t = <<"/">> => a = Function("truediv")
                        /\ t = <<"*", "*">> => a = Function("pow")

\* '-7 -7 *' has been parsed into the integers -7, -7 and the function mul
C9_Witness ==
    /\ string = negative_numbers /\ transform = None /\ pc = "scan"
    /\ elements = <<PyInt(-7), PyInt(-7), Function("mul")>>

\* C10: a rendering mode returns its sole remaining operand less the outer
\* parentheses: '(' + returned string + ')' is the operand that was on the stack.
C10_ResultIsOperandUnwrapped ==
    [][(transform # None /\ pc = "scan" /\ pc' = "done")
            => <<"(">> \o result'.s \o <<")">> = stack[1].s]_vars

\* what the call returned or raised
Outcome == IF pc = "raised" THEN Raise(err) ELSE result

\* the maximal runs of non-space characters of s, in order
WordStarts(s) == {j \in 1..Len(s) : s[j] # " " /\ (j = 1 \/ s[j - 1] = " ")}

WordEnd(s, j) ==
    CHOOSE e \in j..Len(s) :
        /\ \A m \in j..e : s[m] # " "
        /\ e = Len(s) \/ s[e + 1] = " "

Words(s) ==
    [n \in 1..Cardinality(WordStarts(s)) |->
        LET j == CHOOSE x \in WordStarts(s) :
                    Cardinality({y \in WordStarts(s) : y < x}) = n - 1
        IN  SubSeq(s, j, WordEnd(s, j))]

\* the words with a space before, two spaces between and a space after
RECURSIVE Padded(_)
Padded(ws) ==
    IF ws = <<>> THEN <<" ">>
    ELSE <<" ">> \o ws[1] \o <<" ">> \o Padded(Tail(ws))

\* C11: the outcome depends on the input's words only: the call ends as eval
\* does on the same words joined by single spaces and on the same words
\* padded with extra spaces; the tokens are the words, none of them empty.
C11_WhitespaceInvariant ==
    /\ Tokens = Words(string)
    /\ \A j \in 1..Len(Tokens) : Tokens[j] # <<>>
    /\ Ended => /\ Outcome = eval(Join(Words(string)), transform)
                /\ Outcome = eval(Padded(Words(string)), transform)

\* '  4    2  + ' has returned 6
C11_Witness ==
    string = extra_spaces /\ transform = None /\ pc = "done" /\ result = PyInt(6)

\* what thread t's call returned or raised
OutcomeOf(t) ==
    IF calls[t].pc = "raised" THEN Raise(calls[t].err) ELSE calls[t].result

\* C12: in a sequence of calls each call's outcome is the one eval gives its
\* own input and mode, whatever calls came before and however they ended,
\* and each call's stack is empty when its scan starts.
C12_NoStateAcrossCalls ==
    \A t \in Threads :
        /\ calls[t].pc \in {"done", "raised"}
              => OutcomeOf(t) = eval(calls[t].string, calls[t].transform)
        /\ (calls[t].pc = "scan" /\ calls[t].consumed = 0)
              => heap[calls[t].stack] = <<>>

\* a call has returned 6 and another, before or after it, has failed with
\* TooManyOperands, leaving two operands behind
C12_Witness ==
    /\ calls["A"].pc = "done" /\ calls["A"].string = extra_spaces
    /\ calls["A"].result = PyInt(6)
    /\ calls["B"].pc = "raised" /\ calls["B"].err = "TooManyOperands"
    /\ calls["B"].string = too_many_operands

\* C13: calls whose steps interleave each end as eval ends run alone on the
\* same input and mode, and two calls in progress never hold the same stack.
C13_InterleavedAsAlone ==
    /\ \A t \in Threads :
          calls[t].pc \in {"done", "raised"}
              => OutcomeOf(t) = eval(calls[t].string, calls[t].transform)
    /\ \A t, u \in Threads :
          (t # u /\ calls[t].pc = "scan" /\ calls[u].pc = "scan")
              => calls[t].stack # calls[u].stack

\* two calls that overlapped (the second was given the second list object)
\* have both returned
C13_Witness ==
    /\ calls["A"].pc = "done" /\ calls["A"].stack = 1
    /\ calls["A"].string = negative_numbers /\ calls["A"].result = PyInt(49)
    /\ calls["B"].pc = "done" /\ calls["B"].stack = 2
    /\ calls["B"].transform = "to_infix"

\* the scan is at a division whose operands are numbers, the right one not 0
AtDivision ==
    /\ transform = None /\ AtOperator /\ Tokens[consumed + 1] = <<"/">>
    /\ Len(stack) >= 2
    /\ stack[Len(stack)].k \in {"int", "float"}
    /\ stack[Len(stack) - 1].k \in {"int", "float"}
    /\ stack[Len(stack)].n # 0

\* C14: "/" is true division: the operand it pushes is a float whose value is
\* the quotient left / right; '7 2 /' gives 3.5 and '4 2 / 1 - 4 +' gives a
\* value equal to 5.
C14_TrueDivision ==
    /\ [][AtDivision =>
            LET l == stack[Len(stack) - 1]
                r == stack[Len(stack)]
                q == stack'[Len(stack')]
            IN  /\ pc' = "scan" /\ Len(stack') = Len(stack) - 1
                /\ q.k = "float"
                /\ q.n * (l.d * r.n) = (l.n * r.d) * q.d]_vars
    /\ []((pc = "done" /\ transform = None) =>
            /\ string = <<"7", " ", "2", " ", "/">>
                  => result = [k |-> "float", n |-> 7, d |-> 2]
            /\ string = division => (result.n = 5 /\ result.d = 1))

\* '4 2 / 1 - 4 +' has returned a float equal to 5
C14_Witness ==
    /\ string = division /\ transform = None /\ pc = "done"
    /\ result = [k |-> "float", n |-> 5, d |-> 1]

\* operands pushed and operators reduced among the first n tokens
Pushed(n) == Cardinality({j \in 1..n : ~InTable(Tokens[j])})

Reduced(n) == Cardinality({j \in 1..n : InTable(Tokens[j])})

\* C15: the stack is empty when the call starts; while the scan goes on
\* without error its length is operands pushed minus operators reduced, so
\* the operators reduced never exceed the operands pushed minus one and the
\* length is at least 1 after a non-empty prefix; a call that returns had
\* exactly one operand on its stack.
C15_StackDepth ==
    /\ [](/\ pc = "start" => stack = <<>>
          /\ (pc = "scan" /\ consumed = 0) => stack = <<>>
          /\ pc = "scan" =>
                /\ Len(stack) = Pushed(consumed) - Reduced(consumed)
                /\ consumed > 0 =>
                      /\ Len(stack) >= 1
                      /\ Reduced(consumed) <= Pushed(consumed) - 1)
    /\ [][pc' = "done" => (pc = "scan" /\ Len(stack) = 1)]_vars

\* in '5 1 2 + 4 * + 3 -' five operands are pushed and three operators
\* reduced after eight tokens: two operands are on the stack
C15_Witness ==
    /\ string = ints /\ transform = None /\ pc = "scan" /\ consumed = 8
    /\ stack = <<PyInt(17), PyInt(3)>>

\* the steps the call can still take: one per token left, and the steps
\* before and after the scan
StepsLeft ==
    CASE pc = "start" -> Len(Tokens) + 2
      [] pc = "scan" -> Len(elements) - consumed + 1
      [] OTHER -> 0

\* C16: the call is one left-to-right pass that ends: each step of the scan
\* takes the next token, never an earlier one, and does one push or one
\* reduce with it; every step leaves fewer steps to take, the scan can go on
\* until the call has ended (the first step, parsing or tokenizing, has no
\* condition but pc = "start"), a call that returns has taken every token,
\* and it ends with a result or with an error.
C16_SinglePassTerminates ==
    /\ [][/\ StepsLeft' < StepsLeft
          /\ consumed' \in {consumed, consumed + 1}
          /\ (pc = "scan" /\ consumed < Len(elements)) =>
                /\ consumed' = consumed + 1
                /\ elements' = elements
                /\ IF InTable(Tokens[consumed + 1])
                   THEN \/ pc' = "raised"
                        \/ /\ Len(stack') = Len(stack) - 1
                           /\ SubSeq(stack', 1, Len(stack) - 2)
                                 = SubSeq(stack, 1, Len(stack) - 2)
                   ELSE stack' = Append(stack, elements[consumed + 1])
          /\ pc' = "done" => consumed = Len(Tokens)]_vars
    /\ [](/\ pc = "scan" => ENABLED (eval_operator \/ eval_operand \/ eval_return)
          /\ pc = "done" => (result # NoValue /\ err = "")
          /\ pc = "raised" => (result = NoValue /\ err # ""))

\* all nine tokens of '5 1 2 + 4 * + 3 -' are consumed and the call returned
C16_Witness ==
    string = ints /\ transform = "to_prefix" /\ pc = "done" /\ consumed = 9

\* -------------------------------------------------------------------- C17
\* C17: apply_operator is atomic on the stack: when it succeeds it removes
\* the top two operands, pushes one combined operand and leaves the operands
\* below unchanged; when it fails with InsufficientOperands the stack holds
\* the same operands as before, for the empty stack and for a lone operand.
C17_ApplyOperatorAtomic ==
    [][AtOperator =>
          /\ (pc' = "scan" /\ err' = "") =>
                /\ Len(stack) >= 2
                /\ Len(stack') = Len(stack) - 1
                /\ SubSeq(stack', 1, Len(stack) - 2) = SubSeq(stack, 1, Len(stack) - 2)
                /\ stack'[Len(stack')] =
                      build_operand(transform, elements[consumed + 1],
                                    stack[Len(stack) - 1], stack[Len(stack)])
          /\ err' = "InsufficientOperands" => stack' = stack]_vars

\* -------------------------------------------------------------------- C18
\* the string without its parentheses
Unparenthesized(s) == SelectSeq(s, LAMBDA c : c \notin {"(", ")"})

\* how many times the token t occurs in the token sequence ts
Occurrences(ts, t) == Cardinality({j \in 1..Len(ts) : ts[j] = t})

\* C18: in the rendering modes, when get_result runs with exactly one
\* operand on the stack and the scan has reduced at least one operator, the
\* operand begins with '(' and ends with ')', the result is the operand
\* without these two characters, and every token of the input is in the
\* result as often as in the input.
C18_FinishRemovesParentheses ==
    [][(/\ transform # None /\ AtReturn /\ Len(stack) = 1
        /\ HasOperator(Tokens))
          => /\ stack[1].k = "str"
             /\ Len(stack[1].s) >= 2
             /\ stack[1].s[1] = "("
             /\ stack[1].s[Len(stack[1].s)] = ")"
             /\ pc' = "done"
             /\ result'.k = "str"
             /\ <<"(">> \o result'.s \o <<")">> = stack[1].s
             /\ LET shown == Words(Unparenthesized(result'.s))
                IN  /\ Len(shown) = Len(Tokens)
                    /\ \A j \in 1..Len(Tokens) :
                          Occurrences(shown, Tokens[j]) = Occurrences(Tokens, Tokens[j])]_vars

\* '4 2 ** 1 +' returned '(4 ** 2) + 1' in infix mode
C18_Witness ==
    /\ string = exponentiation /\ transform = "to_infix" /\ pc = "done"
    /\ result = Str(<<"(", "4", " ", "*", "*", " ", "2", ")", " ", "+", " ", "1">>)

\* -------------------------------------------------------------------- C19
\* the structural outcome: success, or the kind of the error
Kind(o) == IF o.k = "raise" THEN o.exc ELSE "ok"

\* every token is a number or an operator of the table
AllClassify(ts) == \A j \in 1..Len(ts) : _atomize(ts[j]).k # "raise"

\* C19: the modes agree on the structural outcome: infix mode and prefix
\* mode both succeed or both fail with the same kind of error; when every
\* token classifies in numeric mode and the arithmetic raises no error,
\* numeric mode succeeds exactly when the rendering modes do and otherwise
\* fails with the same kind, InsufficientOperands or TooManyOperands; a
\* token is an operator atom exactly when it is in the operator table.
C19_ModesAgree ==
    Ended =>
        /\ Kind(Outcome) = Kind(eval(string, transform))
        /\ transform = "to_infix" =>
              Kind(Outcome) = Kind(eval(string, "to_prefix"))
        /\ transform = "to_prefix" =>
              Kind(Outcome) = Kind(eval(string, "to_infix"))
        /\ (/\ transform = None /\ AllClassify(Tokens)
            /\ Kind(Outcome) # "ZeroDivisionError") =>
              /\ Kind(Outcome) \in {"ok", "InsufficientOperands", "TooManyOperands"}
              /\ Kind(Outcome) = Kind(eval(string, "to_infix"))
              /\ Kind(Outcome) = Kind(eval(string, "to_prefix"))
        /\ \A j \in 1..Len(Tokens) :
              _atomize(Tokens[j]).k = "function" <=> InTable(Tokens[j])

\* '5 4 1 +' has raised TooManyOperands in numeric mode, as it does when
\* rendered
C19_Witness ==
    /\ string = too_many_operands /\ transform = None
    /\ pc = "raised" /\ err = "TooManyOperands"
    /\ eval(string, "to_infix") = Raise("TooManyOperands")

====
